---- MODULE Spec2Model ----
(***************************************************************************)
(* Sequential tool-execution engine of gemini-chat-lib.                    *)
(*                                                                         *)
(* The module models ToolExecutionManager (utils/tool-execution-manager.ts)*)
(* with its two loops, processFunctionCallSequence (entered through        *)
(* executeToolsWithGeminiAPI) and executeToolsSequentially, the            *)
(* ChatHistory store with its sliding-window truncation, and the two       *)
(* versions of GeminiHandler.sendMessage that the sources contain          *)
(* (gemini/gemini-handler.ts and the earlier one kept in gemini/models.ts).*)
(*                                                                         *)
(* Every await of the TypeScript code is a control position (pc); the code *)
(* between two awaits runs without interleaving and is one action.  abort()*)
(* is a synchronous public method and can be called at any await.          *)
(* Timestamps (ts: Date.now()) are not modelled: no operation reads them.  *)
(***************************************************************************)
EXTENDS Integers, Sequences, FiniteSets, TLC

\* ---------------------------------------------------------------- bounds --
MaxRequests == 4        \* Model Gateway requests of an application that drives the manager
MaxHandlerRequests == 3 \* Model Gateway requests of an application that uses a GeminiHandler
PromptLen   == 1        \* length of a user prompt, in estimated tokens (characters)
CtxWindow   == 5        \* stand-in for the default contextWindow of ChatHistory
MaxOutTok   == 5        \* stand-in for modelMaxTokens

MaxTurns    == 21       \* longest conversation handed to truncateConversation
MaxTenths   == 10       \* largest fraction handed to truncateConversation, in tenths
MaxAdds     == 5        \* addMessage calls on a ChatHistory used on its own
LongLen     == 3        \* length of a long message, in estimated tokens (characters)
MaxTaskAdds == 3        \* messages added to the per-task histories
MaxTs       == 2        \* timestamps 1..MaxTs of the messages of a task

\* ------------------------------------------------------------- constants --
maxConsecutiveMistakes == 3

\* ----------------------------------------------------------------- tools --
\* options.tools of the three applications (createTools offers more of the same
\* kind): an ordinary tool, one on the approval list, the completion tool
ToolsOf(version) ==
  CASE version = "none"   -> {"read_file", "write_to_file", "attempt_completion"}
    [] version = "models" -> {"ask_followup_question", "write_to_file", "attempt_completion"}
    [] OTHER              -> {"ask_followup_question", "read_file", "attempt_completion"}

\* names the model can put in a function call; "unknown_tool" is registered nowhere
CallNames == {"read_file", "write_to_file", "ask_followup_question", "attempt_completion",
              "unknown_tool"}

\* argument maps of a call; they vary where some code reads them
Args == {"a1", "a2"}
ArgsOf(name) == IF name \in {"write_to_file", "attempt_completion"} THEN Args ELSE {"a1"}
CallerApprovalList  == {"write_to_file"}
DefaultApprovalList == {"write_to_file", "edit_file"}

VARIABLES
  \* ChatHistory
  messages, modelMaxTokens, contextWindow,
  \* ToolExecutionManager fields and options
  consecutiveMistakeCount, aborted, isExecutingTool,
  toolsRequiringApproval, onToolApprovalRequired, onToolExecutionCompleted,
  \* GeminiHandler options
  handlerVersion, approvalListGiven, onTaskCompleted, hasManager,
  \* the run in progress: position, locals of the async functions
  pc, run, contents, functionCall, toolResult, followup,
  \* observation of the run: requests issued, last turn sequence sent, result
  requests, sent, ret, outcome,
  \* observation of the current loop iteration
  iter, failStreak,
  \* observation of the completion tool: the call received, the callbacks made
  task,
  \* truncateConversation applied on its own: argument, fraction, return value
  turns, fracToRemove, truncated,
  \* a history object used on its own: the last operation called on it, the
  \* number of messages added so far
  called, added,
  \* per-task messages: the class that holds them (ChatHistory or
  \* MessageHistory), its map taskId -> ts -> message, its map taskId -> ts list
  historyClass, taskMessages, taskList,
  \* observation of a run of executeToolsWithGeminiAPI: the turns it has handed
  \* to addMessage so far; the function calls found in the response in hand
  appended, functionCalls

vars == << messages, modelMaxTokens, contextWindow,
           consecutiveMistakeCount, aborted, isExecutingTool,
           toolsRequiringApproval, onToolApprovalRequired, onToolExecutionCompleted,
           handlerVersion, approvalListGiven, onTaskCompleted, hasManager,
           pc, run, contents, functionCall, toolResult, followup,
           requests, sent, ret, outcome, iter, failStreak, task,
           turns, fracToRemove, truncated, called, added,
           historyClass, taskMessages, taskList, appended, functionCalls >>

\* ----------------------------------------------------------------- turns --
\* ChatMessage: content is a string (type "text", len = its length) or one
\* structured block (function_call / function_response).  The stored turn
\* keeps the tool name, for a function_response whether the result carries
\* an error, and for a function_call the argument map only of the completion
\* tool: the handler reads that one back from the history, no code reads the
\* stored arguments of another call or the text of a stored error.
TextTurn(role, text, len) ==
  [role |-> role, type |-> "text", text |-> text, name |-> "", args |-> "", error |-> FALSE, len |-> len]

CallTurn(name, args) ==
  [role |-> "assistant", type |-> "function_call", text |-> "", name |-> name,
   args |-> IF name = "attempt_completion" THEN args ELSE "", error |-> FALSE, len |-> 0]

ResponseTurn(name, result) ==
  [role |-> "user", type |-> "function_response", text |-> result.content, name |-> name, args |-> "", error |-> (result.error # ""), len |-> 0]

\* convertChatMessageToGemini: assistant becomes model, blocks become parts
GeminiPart(type) ==
  CASE type = "function_call"     -> "functionCall"
    [] type = "function_response" -> "functionResponse"
    [] OTHER                      -> "text"

convertChatMessageToGemini(m) ==
  [role |-> IF m.role = "assistant" THEN "model" ELSE m.role,
   part |-> GeminiPart(m.type), text |-> m.text, name |-> m.name, args |-> m.args, error |-> m.error]

ConvertAll(ms) == [i \in 1..Len(ms) |-> convertChatMessageToGemini(ms[i])]

\* the Content objects processFunctionCallSequence builds by hand
ModelCallContent(name, args) ==
  [role |-> "model", part |-> "functionCall", text |-> "", name |-> name,
   args |-> IF name = "attempt_completion" THEN args ELSE "", error |-> FALSE]

UserResponseContent(name, result) ==
  [role |-> "user", part |-> "functionResponse", text |-> result.content, name |-> name, args |-> "", error |-> (result.error # "")]

UserTextContent(text) ==
  [role |-> "user", part |-> "text", text |-> text, name |-> "", args |-> "", error |-> FALSE]

\* ------------------------------------------------------- sliding window ---
RECURSIVE SumTextTokens(_)
SumTextTokens(ms) ==
  IF ms = << >> THEN 0
  ELSE (IF Head(ms).type = "text" THEN Head(ms).len ELSE 0) + SumTextTokens(Tail(ms))

\* the number of messages dropped is not rounded down to an even number
MessagesToRemove_odd(n, num, den) ==
  ((n - 1) * num) \div den

\* the product is rounded up and left as it is
MessagesToRemove_ceil(n, num, den) ==
  ((n - 1) * num + den - 1) \div den

\* lines 129-133: Math.floor(messagesAfterFirst * fracToRemove), made even.  The
\* fraction is num/den with den > 0; it is positive where this is evaluated.
MessagesToRemove(n, num, den) ==
  LET rawMessagesToRemove == ((n - 1) * num) \div den IN
  rawMessagesToRemove - (rawMessagesToRemove % 2)

\* the oldest messages are dropped, the first one among them
truncateConversation_dropFirst(ms, num, den) ==
  IF Len(ms) <= 1 \/ num <= 0 THEN ms
  ELSE LET messagesToRemove == MessagesToRemove(Len(ms), num, den) IN
       IF messagesToRemove <= 0 THEN ms
       ELSE SubSeq(ms, messagesToRemove + 1, Len(ms))

\* truncateConversation(messages, fracToRemove), fracToRemove = num/den:
\* lines 117-142.  slice(messagesToRemove + 1) is empty past the end.
truncateConversation(ms, num, den) ==
  IF Len(ms) <= 1 \/ num <= 0 THEN ms
  ELSE LET messagesToRemove == MessagesToRemove(Len(ms), num, den) IN
       IF messagesToRemove <= 0 THEN ms
       ELSE << ms[1] >> \o SubSeq(ms, messagesToRemove + 2, Len(ms))

\* truncateConversation(messages, 0.5): floor((n-1)*0.5) rounded down to even
MessagesToRemoveHalf(n) == MessagesToRemove(n, 1, 2)

\* the oldest messages are kept and the newest ones dropped
truncateConversationHalf_keepHead(ms) ==
  SubSeq(ms, 1, Len(ms) - MessagesToRemoveHalf(Len(ms)))

truncateConversationHalf(ms) == truncateConversation(ms, 1, 2)

\* nothing is reserved for the model's answer
OverBudget_noReserve(ms, maxTok, ctx) == 10 * SumTextTokens(ms) > 9 * ctx

\* totalTokens > contextWindow * 0.9 - modelMaxTokens * 0.2, in tenths
OverBudget(ms, maxTok, ctx) == 10 * SumTextTokens(ms) > 9 * ctx - 2 * maxTok

truncateConversationIfNeeded(ms, maxTok, ctx) ==
  IF Len(ms) <= 1 THEN ms
  ELSE IF OverBudget(ms, maxTok, ctx) THEN truncateConversationHalf(ms)
  ELSE ms

\* ChatHistory.addMessage: push, then autoTruncateIfNeeded
AddMessage(ms, m, maxTok, ctx) ==
  truncateConversationIfNeeded(Append(ms, m), maxTok, ctx)

\* ------------------------------------------------------------- tool results
\* ToolResult {content, error?}: error "" stands for an absent error
OkResult       == [content |-> "ok",       error |-> ""]
ToolErrResult  == [content |-> "",         error |-> "tool_error"]  \* the tool returned {content:'', error}
NotFoundResult == [content |-> "",         error |-> "not_found"]   \* executeTool, tool not registered
ThrownResult   == [content |-> "",         error |-> "thrown"]      \* executeTool's catch block
DeclinedResult == [content |-> "declined", error |-> ""]            \* approval resolved to false
NoResult       == [content |-> "",         error |-> ""]

\* if (toolResult.error)
HasError(result) == result.error # ""

NoCall == [name |-> "", args |-> ""]
NoIter == [name |-> "", args |-> "", before |-> 0, after |-> 0, asked |-> NoCall,
           approval |-> "none", started |-> FALSE, observed |-> FALSE,
           kind |-> "none", done |-> FALSE]

\* no completion call received in this run, onTaskCompleted not called
NoTask == [call |-> NoCall, notified |-> << >>]

\* a fraction as numerator and denominator; NoFraction stands for no call made
NoFraction == << 0, 1 >>

\* no operation called yet on the history object
NoOperation == [op |-> "none"]

\* task ids a caller uses, and a store that holds no task: an absent key of the
\* Record is a task id outside the function's domain
TaskIds == {"A", "B"}
NoTasks == [t \in {} |-> << >>]

\* the history objects an engine run leaves alone
InitStores ==
  /\ called = NoOperation
  /\ added = 0
  /\ historyClass = "ChatHistory"
  /\ taskMessages = NoTasks
  /\ taskList = NoTasks

\* what the Model Gateway can answer: free text, one function call, or a transport error
\* A call answer has one functionCall part (name, args) and possibly more of
\* them after it: here one further call of a tool the application declared.
FurtherCall == [name |-> IF handlerVersion = "gemini-handler" THEN "read_file" ELSE "write_to_file",
                args |-> "a1"]
CallResponses ==
  {r \in [kind : {"call"}, name : CallNames, args : Args, more : {<< >>, << FurtherCall >>}] :
     r.args \in ArgsOf(r.name)}
Responses == {[kind |-> "text", name |-> "", args |-> "", more |-> << >>],
              [kind |-> "reject", name |-> "", args |-> "", more |-> << >>]} \cup CallResponses

\* parts.filter(part => part.functionCall).map(part => part.functionCall)
FunctionCalls(r) ==
  IF r.kind = "call" THEN << [name |-> r.name, args |-> r.args] >> \o r.more ELSE << >>

\* initialFunctionCalls[0], nextFunctionCalls[0], functionCalls[0]
FirstCall(calls) == calls[1]

\* the model's answer is a call of the completion tool: note its arguments
Received(r) ==
  IF r.kind = "call" /\ r.name = "attempt_completion"
  THEN [task EXCEPT !.call = [name |-> r.name, args |-> r.args]]
  ELSE task

\* onTaskCompleted(result, command) is called with the arguments args
Notified(t, args) == [t EXCEPT !.notified = Append(@, args)]

\* the request budget of the application in hand
RequestBound == IF handlerVersion = "none" THEN MaxRequests ELSE MaxHandlerRequests

\* The environment stops answering with tool calls once the budget is used up.
\* A call names a tool the application declared, or, where the application
\* drives the manager itself, a tool that does not exist.
Answers ==
  IF requests < RequestBound
  THEN {r \in Responses : r.kind = "call" =>
          \/ r.name \in ToolsOf(handlerVersion)
          \/ r.name = "unknown_tool" /\ handlerVersion = "none"}
  ELSE {r \in Responses : r.kind # "call"}

GeminiCtxWindow == CtxWindow + 2     \* stand-in for geminiModels[GEMINI_MODEL_ID].contextWindow

\* ------------------------------------------------------------------- Init --
\* new ChatHistory(), and the application's engine: a ToolExecutionManager it
\* drives itself (handlerVersion "none", as test.js does), or a GeminiHandler of
\* one of the two versions in the sources, which creates its manager later.
Init ==
  /\ messages = << >>
  /\ modelMaxTokens = MaxOutTok
  /\ contextWindow = CtxWindow
  /\ consecutiveMistakeCount = 0
  /\ aborted = FALSE
  /\ isExecutingTool = FALSE
  /\ approvalListGiven \in BOOLEAN
  /\ toolsRequiringApproval = (IF approvalListGiven THEN CallerApprovalList ELSE {})
  /\ onToolApprovalRequired \in BOOLEAN
  /\ onToolExecutionCompleted \in BOOLEAN
  /\ handlerVersion \in {"none", "gemini-handler", "models"}
  /\ onTaskCompleted \in (IF handlerVersion = "none" THEN {FALSE} ELSE BOOLEAN)
  /\ hasManager = FALSE
  /\ pc = "idle"
  /\ run = "none"
  /\ contents = << >>
  /\ functionCall = NoCall
  /\ toolResult = NoResult
  /\ followup = FALSE
  /\ requests = 0
  /\ sent = << >>
  /\ ret = "none"
  /\ outcome = "none"
  /\ iter = NoIter
  /\ failStreak = 0
  /\ task = NoTask
  /\ appended = << >>
  /\ functionCalls = << >>
  /\ turns = << >>
  /\ fracToRemove = NoFraction
  /\ truncated = << >>
  /\ InitStores

\* engine of the state machine that applies truncateConversation on its own:
\* a ChatHistory and a manager nobody runs
InitTruncateEngine ==
  /\ messages = << >>
  /\ modelMaxTokens = MaxOutTok
  /\ contextWindow = CtxWindow
  /\ consecutiveMistakeCount = 0
  /\ aborted = FALSE
  /\ isExecutingTool = FALSE
  /\ approvalListGiven = FALSE
  /\ toolsRequiringApproval = {}
  /\ onToolApprovalRequired = FALSE
  /\ onToolExecutionCompleted = FALSE
  /\ handlerVersion = "none"
  /\ onTaskCompleted = FALSE
  /\ hasManager = FALSE
  /\ pc = "idle"
  /\ run = "none"
  /\ contents = << >>
  /\ functionCall = NoCall
  /\ toolResult = NoResult
  /\ followup = FALSE
  /\ requests = 0
  /\ sent = << >>
  /\ ret = "none"
  /\ outcome = "none"
  /\ iter = NoIter
  /\ failStreak = 0
  /\ task = NoTask
  /\ appended = << >>
  /\ functionCalls = << >>

history  == << messages, modelMaxTokens, contextWindow >>
limits   == << modelMaxTokens, contextWindow >>
manager  == << consecutiveMistakeCount, aborted, isExecutingTool >>
options  == << toolsRequiringApproval, onToolApprovalRequired, onToolExecutionCompleted,
               handlerVersion, approvalListGiven, onTaskCompleted, hasManager >>
gateway  == << requests, sent >>
runLog   == << appended, functionCalls >>
stores   == << called, added, historyClass, taskMessages, taskList >>
pure     == << turns, fracToRemove, truncated, stores >>

Push(m) == AddMessage(messages, m, modelMaxTokens, contextWindow)

\* every run is reported as completed
Finish_alwaysTrue(value, why) ==
  /\ pc' = "idle"
  /\ ret' = "true"
  /\ outcome' = why
  /\ contents' = << >>
  /\ functionCall' = NoCall
  /\ toolResult' = NoResult
  /\ followup' = FALSE
  /\ failStreak' = 0

\* a run returns to its caller: its locals go out of scope
Finish(value, why) ==
  /\ pc' = "idle"
  /\ ret' = value
  /\ outcome' = why
  /\ contents' = << >>
  /\ functionCall' = NoCall
  /\ toolResult' = NoResult
  /\ followup' = FALSE
  /\ failStreak' = 0

\* ---------------------------------------- truncateConversation on its own --
\* a conversation as test-auto-truncate.js builds it: a first turn, then user and
\* assistant turns in alternation; len tells the turns apart
TurnAt(i) ==
  TextTurn(IF i = 1 THEN "system" ELSE IF i % 2 = 0 THEN "user" ELSE "assistant", "t", i)

Conversation(n) == [i \in 1..n |-> TurnAt(i)]

\* fractions in tenths, from below zero up to MaxTenths tenths
Fractions == {<< k, 10 >> : k \in -1..MaxTenths}

InitTruncate ==
  /\ InitTruncateEngine
  /\ turns \in {Conversation(n) : n \in 0..MaxTurns}
  /\ fracToRemove = NoFraction
  /\ truncated = << >>
  /\ InitStores

\* const truncatedMessages = truncateConversation(messages, fracToRemove): the
\* function reads its argument and builds a new array (lines 122, 136, 140-141)
TruncateConversation ==
  /\ fracToRemove = NoFraction
  /\ \E f \in Fractions :
       /\ fracToRemove' = f
       /\ truncated' = truncateConversation(turns, f[1], f[2])
  /\ turns' = turns
  /\ UNCHANGED stores
  /\ UNCHANGED << history, manager, options, pc, run, contents, functionCall, toolResult,
                  followup, gateway, ret, outcome, iter, failStreak, task, runLog >>

NextTruncate == TruncateConversation

SpecTruncate == InitTruncate /\ [][NextTruncate]_vars

\* ------------------------------------------------- ChatHistory on its own --
\* the messages an application adds: a short text, a long text, or one with
\* structured content; text carries the message's identity (its ts), roles
\* alternate
NewTurns(i) ==
  LET id   == ToString(i)
      role == IF i % 2 = 1 THEN "user" ELSE "assistant" IN
  {TextTurn(role, id, 1), TextTurn(role, id, LongLen),
   [CallTurn("read_file", "a1") EXCEPT !.text = id]}

\* what the last call of truncateConversation or truncateConversationIfNeeded
\* was given and returned is forgotten when the store is used again
Forget ==
  /\ turns' = << >>
  /\ fracToRemove' = NoFraction
  /\ truncated' = << >>

engine == << manager, options, pc, run, contents, functionCall, toolResult, followup,
             gateway, ret, outcome, iter, failStreak, task, runLog >>

tasks == << historyClass, taskMessages, taskList >>

\* new ChatHistory({modelMaxTokens, contextWindow})
InitHistory ==
  /\ InitTruncateEngine
  /\ turns = << >>
  /\ fracToRemove = NoFraction
  /\ truncated = << >>
  /\ InitStores

\* addMessage(message): lines 93-102, with autoTruncateIfNeeded (133-150)
HistoryAddMessage ==
  /\ added < MaxAdds
  /\ \E m \in NewTurns(added + 1) :
       /\ messages' = AddMessage(messages, m, modelMaxTokens, contextWindow)
       /\ called' = [op |-> "addMessage", message |-> m, before |-> Len(messages)]
  /\ added' = added + 1
  /\ Forget
  /\ UNCHANGED << limits, engine, tasks >>

\* clearMessages(): lines 115-117
HistoryClearMessages ==
  /\ messages' = << >>
  /\ called' = [op |-> "clearMessages"]
  /\ Forget
  /\ UNCHANGED << limits, added, engine, tasks >>

\* slice(0, index) whatever the index: a negative one counts from the end
truncateMessages_unguarded(ms, index) ==
  IF index < 0 THEN SubSeq(ms, 1, Len(ms) + index)
  ELSE IF index < Len(ms) THEN SubSeq(ms, 1, index) ELSE ms

\* this.messages.slice(0, index) when the index is inside the array
truncateMessages(ms, index) ==
  IF index >= 0 /\ index < Len(ms) THEN SubSeq(ms, 1, index) ELSE ms

\* truncateMessages(index): lines 123-127
HistoryTruncateMessages ==
  /\ \E index \in -1..(Len(messages) + 1) :
       /\ messages' = truncateMessages(messages, index)
       /\ called' = [op |-> "truncateMessages", index |-> index]
  /\ Forget
  /\ UNCHANGED << limits, added, engine, tasks >>

\* setModelLimits(maxTokens, contextWindow): lines 84-87
HistorySetModelLimits ==
  /\ \E cw \in {CtxWindow, GeminiCtxWindow} :
       /\ cw # contextWindow
       /\ contextWindow' = cw
  /\ modelMaxTokens' = MaxOutTok
  /\ called' = [op |-> "setModelLimits"]
  /\ Forget
  /\ UNCHANGED << messages, added, engine, tasks >>

\* truncateConversation(conversation.getMessages(), f), as test-auto-truncate.js
\* calls it: getMessages returns a copy, the store is not touched
HistoryTruncateConversation ==
  /\ \E f \in Fractions :
       /\ fracToRemove' = f
       /\ truncated' = truncateConversation(messages, f[1], f[2])
  /\ turns' = messages
  /\ called' = [op |-> "truncateConversation"]
  /\ UNCHANGED << history, added, engine, tasks >>

\* truncateConversationIfNeeded({messages, modelMaxTokens, contextWindow}) called
\* by an application on the store's messages with limits of its own
HistoryTruncateIfNeeded ==
  /\ \E cw \in {CtxWindow, GeminiCtxWindow} :
       /\ truncated' = truncateConversationIfNeeded(messages, MaxOutTok, cw)
       /\ called' = [op |-> "truncateConversationIfNeeded",
                     modelMaxTokens |-> MaxOutTok, contextWindow |-> cw]
  /\ turns' = messages
  /\ fracToRemove' = NoFraction
  /\ UNCHANGED << history, added, engine, tasks >>

NextHistory ==
  \/ HistoryAddMessage
  \/ HistoryClearMessages
  \/ HistoryTruncateMessages
  \/ HistorySetModelLimits
  \/ HistoryTruncateConversation
  \/ HistoryTruncateIfNeeded

SpecHistory == InitHistory /\ [][NextHistory]_vars

\* --------------------------------------------------- per-task histories ----
\* ChatHistory.addTaskMessage / updateTaskMessage / getTaskMessages /
\* getAllTaskIds / clearTaskHistory (part_003 lines 101-162) and
\* MessageHistory.add / update / getMessages (message-history.ts lines 21-55)
\* keep the same two Records; MessageHistory has no clear and no id list.
\* A ClineMessage is its timestamp and its text.
ClineMessages == [ts : 1..MaxTs, text : {"v1", "v2"}]

NoMessages == [ts \in {} |-> [ts |-> 0, text |-> ""]]

\* this.taskMessages[taskId], undefined read as holding nothing
MessagesOfTask(store, taskId) ==
  IF taskId \in DOMAIN store THEN store[taskId] ELSE NoMessages

\* this.taskList[taskId] ?? []
ListOfTask(list, taskId) ==
  IF taskId \in DOMAIN list THEN list[taskId] ELSE << >>

\* this.taskMessages[taskId][message.ts] = message, the task's Record created
\* when it is missing
WithMessage(store, taskId, message) ==
  LET old == MessagesOfTask(store, taskId) IN
  [k \in DOMAIN store \cup {taskId} |->
     IF k = taskId
     THEN [ts \in DOMAIN old \cup {message.ts} |->
             IF ts = message.ts THEN message ELSE old[ts]]
     ELSE store[k]]

\* this.taskList[taskId].push(message.ts), the list created when it is missing
WithTs(list, taskId, ts) ==
  [k \in DOMAIN list \cup {taskId} |->
     IF k = taskId THEN Append(ListOfTask(list, taskId), ts) ELSE list[k]]

\* every task's entry is deleted
Without_all(store, taskId) == [k \in {} |-> store[k]]

\* delete this.taskMessages[taskId] / delete this.taskList[taskId]
Without(store, taskId) == [k \in DOMAIN store \ {taskId} |-> store[k]]

\* getTaskMessages(taskId) / getMessages(taskId): the list's timestamps mapped
\* to the stored messages, the missing ones filtered out
TaskMessagesIn(store, list, taskId) ==
  LET ofTask  == MessagesOfTask(store, taskId)
      present == SelectSeq(ListOfTask(list, taskId), LAMBDA ts : ts \in DOMAIN ofTask) IN
  [i \in 1..Len(present) |-> ofTask[present[i]]]

getTaskMessages(taskId) == TaskMessagesIn(taskMessages, taskList, taskId)

\* getAllTaskIds(): Object.keys(this.taskList)
getAllTaskIds == DOMAIN taskList

\* the method names of the class in hand
AddName    == IF historyClass = "MessageHistory" THEN "add" ELSE "addTaskMessage"
UpdateName == IF historyClass = "MessageHistory" THEN "update" ELSE "updateTaskMessage"

restOfState == << history, turns, fracToRemove, truncated, engine >>

\* new ChatHistory() or new MessageHistory()
InitTasks ==
  /\ InitTruncateEngine
  /\ turns = << >>
  /\ fracToRemove = NoFraction
  /\ truncated = << >>
  /\ called = NoOperation
  /\ added = 0
  /\ historyClass \in {"ChatHistory", "MessageHistory"}
  /\ taskMessages = NoTasks
  /\ taskList = NoTasks

\* addTaskMessage(taskId, message) / add(taskId, message)
AddTaskMessage ==
  /\ added < MaxTaskAdds
  /\ \E taskId \in TaskIds, message \in ClineMessages :
       /\ taskMessages' = WithMessage(taskMessages, taskId, message)
       /\ taskList' = WithTs(taskList, taskId, message.ts)
       /\ called' = [op |-> AddName, taskId |-> taskId, message |-> message, threw |-> FALSE]
  /\ added' = added + 1
  /\ UNCHANGED << historyClass, restOfState >>

\* updateTaskMessage(taskId, message) tests this.taskMessages[taskId] first
\* (part_003 line 126); update(taskId, message) reads
\* this.messages[taskId][message.ts] at once (message-history.ts line 41), a
\* TypeError when the task has no Record
UpdateTaskMessage ==
  /\ \E taskId \in TaskIds, message \in ClineMessages :
       IF taskId \notin DOMAIN taskMessages
       THEN /\ called' = [op |-> UpdateName, taskId |-> taskId, message |-> message,
                          threw |-> (historyClass = "MessageHistory")]
            /\ UNCHANGED taskMessages
       ELSE /\ called' = [op |-> UpdateName, taskId |-> taskId, message |-> message,
                          threw |-> FALSE]
            /\ taskMessages' =
                 (IF message.ts \in DOMAIN taskMessages[taskId]
                  THEN WithMessage(taskMessages, taskId, message)
                  ELSE taskMessages)
  /\ UNCHANGED << taskList, added, historyClass, restOfState >>

\* clearTaskHistory(taskId): part_003 lines 154-162
ClearTaskHistory ==
  /\ historyClass = "ChatHistory"
  /\ \E taskId \in TaskIds :
       /\ taskMessages' = Without(taskMessages, taskId)
       /\ taskList' = Without(taskList, taskId)
       /\ called' = [op |-> "clearTaskHistory", taskId |-> taskId, threw |-> FALSE]
  /\ UNCHANGED << added, historyClass, restOfState >>

NextTasks ==
  \/ AddTaskMessage
  \/ UpdateTaskMessage
  \/ ClearTaskHistory

SpecTasks == InitTasks /\ [][NextTasks]_vars

\* ------------------------------------------------------------- executeTool --
\* the gate left out: no tool ever waits for approval
RequiresApproval_never(toolName) == FALSE

\* line 128: the approval gate applies
RequiresApproval(toolName) ==
  toolName \in toolsRequiringApproval /\ onToolApprovalRequired

\* the executing flag is raised before the approval callback is asked
ExecuteToolEnter_eager(toolName, toolParams) ==
  LET it == [NoIter EXCEPT !.name = toolName, !.args = toolParams,
                           !.before = consecutiveMistakeCount] IN
  IF toolName \notin ToolsOf(handlerVersion)
  THEN /\ toolResult' = NotFoundResult
       /\ iter' = [it EXCEPT !.kind = "not_found"]
       /\ pc' = "X_return"
       /\ UNCHANGED manager
  ELSE IF RequiresApproval(toolName)
  THEN /\ iter' = [it EXCEPT !.asked = [name |-> toolName, args |-> toolParams]]
       /\ pc' = "X_awaitApproval"
       /\ toolResult' = NoResult
       /\ isExecutingTool' = TRUE
       /\ UNCHANGED << consecutiveMistakeCount, aborted >>
  ELSE /\ isExecutingTool' = TRUE
       /\ iter' = [it EXCEPT !.started = TRUE]
       /\ pc' = "X_awaitExecute"
       /\ toolResult' = NoResult
       /\ UNCHANGED << consecutiveMistakeCount, aborted >>

\* executeTool up to its first await (lines 118-139)
ExecuteToolEnter(toolName, toolParams) ==
  LET it == [NoIter EXCEPT !.name = toolName, !.args = toolParams,
                           !.before = consecutiveMistakeCount] IN
  IF toolName \notin ToolsOf(handlerVersion)
  THEN /\ toolResult' = NotFoundResult
       /\ iter' = [it EXCEPT !.kind = "not_found"]
       /\ pc' = "X_return"
       /\ UNCHANGED manager
  ELSE IF RequiresApproval(toolName)
  THEN /\ iter' = [it EXCEPT !.asked = [name |-> toolName, args |-> toolParams]]
       /\ pc' = "X_awaitApproval"
       /\ toolResult' = NoResult
       /\ UNCHANGED manager
  ELSE /\ isExecutingTool' = TRUE
       /\ iter' = [it EXCEPT !.started = TRUE]
       /\ pc' = "X_awaitExecute"
       /\ toolResult' = NoResult
       /\ UNCHANGED << consecutiveMistakeCount, aborted >>

\* the catch block forgets to clear the executing flag
ExecuteToolCatch_leak ==
  /\ isExecutingTool' = isExecutingTool
  /\ consecutiveMistakeCount' = consecutiveMistakeCount + 1
  /\ toolResult' = ThrownResult
  /\ pc' = "X_return"

\* executeTool's catch block (lines 153-161)
ExecuteToolCatch ==
  /\ isExecutingTool' = FALSE
  /\ consecutiveMistakeCount' = consecutiveMistakeCount + 1
  /\ toolResult' = ThrownResult
  /\ pc' = "X_return"

\* lines 147-152: the completion tool resets the counter, the result is returned
ExecuteToolTail(result) ==
  /\ consecutiveMistakeCount' =
       (IF functionCall.name = "attempt_completion" THEN 0 ELSE consecutiveMistakeCount)
  /\ toolResult' = result
  /\ pc' = "X_return"

\* await this.onToolApprovalRequired(toolName, params) settles
ApprovalSettles ==
  /\ UNCHANGED runLog
  /\ UNCHANGED << task, pure >>
  /\ pc = "X_awaitApproval"
  /\ \E r \in {"true", "false", "throw"} :
       /\ iter' = [iter EXCEPT !.approval = r, !.started = (r = "true"),
                               !.kind = IF r = "false" THEN "denied"
                                        ELSE IF r = "throw" THEN "throw" ELSE "none"]
       /\ CASE r = "true"  -> /\ isExecutingTool' = TRUE
                              /\ pc' = "X_awaitExecute"
                              /\ UNCHANGED << consecutiveMistakeCount, toolResult >>
            [] r = "false" -> /\ toolResult' = DeclinedResult
                              /\ pc' = "X_return"
                              /\ UNCHANGED << consecutiveMistakeCount, isExecutingTool >>
            [] r = "throw" -> ExecuteToolCatch
  /\ UNCHANGED << history, aborted, options, run, contents, functionCall, followup,
                  gateway, ret, outcome, failStreak >>

\* await tool.execute(params) settles: a result, a result with error, or a rejection
ExecuteSettles ==
  /\ UNCHANGED runLog
  /\ UNCHANGED << task, pure >>
  /\ pc = "X_awaitExecute"
  /\ \E r \in {"ok", "error", "throw"} :
       IF r = "throw"
       THEN /\ ExecuteToolCatch
            /\ iter' = [iter EXCEPT !.kind = "throw"]
       ELSE LET result == IF r = "ok" THEN OkResult ELSE ToolErrResult
                k == IF r = "ok" THEN "ok" ELSE "tool_error" IN
            IF onToolExecutionCompleted
            THEN /\ isExecutingTool' = FALSE
                 /\ toolResult' = result
                 /\ iter' = [iter EXCEPT !.kind = k, !.observed = TRUE]
                 /\ pc' = "X_awaitObserver"
                 /\ UNCHANGED consecutiveMistakeCount
            ELSE /\ isExecutingTool' = FALSE
                 /\ iter' = [iter EXCEPT !.kind = k]
                 /\ ExecuteToolTail(result)
  /\ UNCHANGED << history, aborted, options, run, contents, functionCall, followup,
                  gateway, ret, outcome, failStreak >>

\* await this.onToolExecutionCompleted(toolName, params, result) settles
ObserverSettles ==
  /\ UNCHANGED runLog
  /\ UNCHANGED << task, pure >>
  /\ pc = "X_awaitObserver"
  /\ \E r \in {"ok", "throw"} :
       IF r = "throw"
       THEN /\ ExecuteToolCatch
            /\ iter' = [iter EXCEPT !.kind = "throw"]
       ELSE /\ ExecuteToolTail(toolResult)
            /\ UNCHANGED << isExecutingTool, iter >>
  /\ UNCHANGED << history, aborted, options, run, contents, functionCall, followup,
                  gateway, ret, outcome, failStreak >>

\* abort(): lines 167-169, callable at any time on a manager that exists.  The
\* handlers keep theirs in a field that only TypeScript marks private.
Abort ==
  /\ UNCHANGED runLog
  /\ UNCHANGED << task, pure >>
  /\ ~aborted
  /\ handlerVersion = "none" \/ hasManager
  /\ aborted' = TRUE
  /\ UNCHANGED << history, consecutiveMistakeCount, isExecutingTool, options, pc, run,
                  contents, functionCall, toolResult, followup, gateway, ret, outcome,
                  iter, failStreak >>

\* ------------------------------------- the two loops' counter bookkeeping --
\* a result without error leaves the counter where it is
MistakeCountAfterSequence_keep(count, result) ==
  IF HasError(result) THEN count + 1 ELSE count

\* a result without error takes one mistake off instead of clearing the counter
MistakeCountAfterSequence_decay(count, result) ==
  IF HasError(result) THEN count + 1 ELSE IF count > 0 THEN count - 1 ELSE 0

\* processFunctionCallSequence lines 339-343
MistakeCountAfterSequence(count, result) ==
  IF HasError(result) THEN count + 1 ELSE 0

\* executeToolsSequentially lines 431-432 and 458
MistakeCountAfterSequential(count, result) ==
  IF HasError(result) THEN count + 1 ELSE 0

\* the aborted test left out: only the mistake budget stops an iteration
IterationStops_budgetOnly(isAborted, count) ==
  count >= maxConsecutiveMistakes

\* the loop gives up after its second request, whatever the tools returned
IterationStops_capped(isAborted, count) ==
  isAborted \/ count >= maxConsecutiveMistakes \/ requests >= 2

\* lines 269-275 and 388-395: the iteration does not start
IterationStops(isAborted, count) ==
  isAborted \/ count >= maxConsecutiveMistakes

StopReason == IF aborted THEN "aborted" ELSE "budget"

\* -------------------------------------------- executeToolsWithGeminiAPI ----
\* lines 177-219: snapshot of the history plus the prompt, first request
ExecuteToolsWithGeminiAPI ==
  /\ appended' = << >>
  /\ functionCalls' = << >>
  /\ UNCHANGED pure
  /\ task' = NoTask
  /\ pc = "idle"
  /\ handlerVersion = "none"
  /\ requests < MaxRequests
  /\ contents' = Append(ConvertAll(messages), UserTextContent("prompt"))
  /\ followup' = FALSE
  /\ functionCall' = NoCall
  /\ iter' = NoIter
  /\ sent' = contents'
  /\ requests' = requests + 1
  /\ pc' = "P_awaitInitial"
  /\ run' = "P"
  /\ ret' = "none"
  /\ outcome' = "none"
  /\ failStreak' = 0
  /\ toolResult' = NoResult
  /\ UNCHANGED << history, manager, options >>

\* the prompt is stored before the outcome of the first request is known
InitialResponse_promptFirst ==
  /\ UNCHANGED pure
  /\ pc = "P_awaitInitial"
  /\ \E r \in Answers :
       /\ task' = Received(r)
       /\ functionCalls' = FunctionCalls(r)
       /\ CASE r.kind = "reject" ->
              /\ Finish("false", "gateway_error")
              /\ messages' = Push(TextTurn("user", "prompt", PromptLen))
              /\ appended' = << TextTurn("user", "prompt", PromptLen) >>
         [] r.kind = "text" ->
              /\ messages' = AddMessage(Push(TextTurn("user", "prompt", PromptLen)),
                                        TextTurn("assistant", "reply", 1),
                                        modelMaxTokens, contextWindow)
              /\ appended' = << TextTurn("user", "prompt", PromptLen),
                                TextTurn("assistant", "reply", 1) >>
              /\ Finish("false", "text")
         [] r.kind = "call" ->
              /\ messages' = Push(TextTurn("user", "prompt", PromptLen))
              /\ appended' = << TextTurn("user", "prompt", PromptLen) >>
              /\ functionCall' = FirstCall(FunctionCalls(r))
              /\ pc' = "P_iteration"
              /\ UNCHANGED << ret, outcome, contents, toolResult, followup, failStreak >>
  /\ sent' = << >>
  /\ UNCHANGED << limits, manager, options, run, requests, iter >>

\* the response to the first request: lines 221-250 and 251-254
InitialResponse ==
  /\ UNCHANGED pure
  /\ pc = "P_awaitInitial"
  /\ \E r \in Answers :
       /\ task' = Received(r)
       /\ functionCalls' = FunctionCalls(r)
       /\ CASE r.kind = "reject" ->
              /\ Finish("false", "gateway_error")
              /\ UNCHANGED << messages, appended >>
         [] r.kind = "text" ->
              /\ messages' = AddMessage(Push(TextTurn("user", "prompt", PromptLen)),
                                        TextTurn("assistant", "reply", 1),
                                        modelMaxTokens, contextWindow)
              /\ appended' = << TextTurn("user", "prompt", PromptLen),
                                TextTurn("assistant", "reply", 1) >>
              /\ Finish("false", "text")
         [] r.kind = "call" ->
              /\ messages' = Push(TextTurn("user", "prompt", PromptLen))
              /\ appended' = << TextTurn("user", "prompt", PromptLen) >>
              /\ functionCall' = FirstCall(FunctionCalls(r))
              /\ pc' = "P_iteration"
              /\ UNCHANGED << ret, outcome, contents, toolResult, followup, failStreak >>
  /\ sent' = << >>
  /\ UNCHANGED << limits, manager, options, run, requests, iter >>

\* processFunctionCallSequence up to the await of executeTool: lines 264-299
SequenceIteration ==
  /\ functionCalls' = << >>
  /\ UNCHANGED appended
  /\ UNCHANGED << task, pure >>
  /\ pc = "P_iteration"
  /\ IF IterationStops(aborted, consecutiveMistakeCount)
     THEN /\ Finish("true", StopReason)
          /\ UNCHANGED << manager, iter >>
     ELSE IF functionCall.name = "attempt_completion"
     THEN /\ Finish("true", "completion")
          /\ UNCHANGED << manager, iter >>
     ELSE /\ contents' = Append(contents, ModelCallContent(functionCall.name, functionCall.args))
          /\ ExecuteToolEnter(functionCall.name, functionCall.args)
          /\ UNCHANGED << ret, outcome, functionCall, followup, failStreak >>
  /\ UNCHANGED << history, options, run, gateway >>

\* the result is stored before the call it answers
IterationTurns_responseFirst(call, result) ==
  << ResponseTurn(call.name, result), CallTurn(call.name, call.args) >>

\* the two turns an iteration hands to addMessage, in this order: lines 302-312
\* and 327-337
IterationTurns(call, result) ==
  << CallTurn(call.name, call.args), ResponseTurn(call.name, result) >>

\* executeTool has returned: lines 301-347, up to the await of generateContent
SequenceAfterTool ==
  /\ UNCHANGED << task, pure >>
  /\ pc = "X_return"
  /\ run = "P"
  /\ messages' = AddMessage(Push(IterationTurns(functionCall, toolResult)[1]),
                            IterationTurns(functionCall, toolResult)[2],
                            modelMaxTokens, contextWindow)
  /\ appended' = appended \o IterationTurns(functionCall, toolResult)
  /\ functionCalls' = << >>
  /\ contents' = Append(contents, UserResponseContent(functionCall.name, toolResult))
  /\ consecutiveMistakeCount' = MistakeCountAfterSequence(consecutiveMistakeCount, toolResult)
  /\ iter' = [iter EXCEPT !.done = TRUE, !.after = consecutiveMistakeCount']
  /\ failStreak' = IF HasError(toolResult) THEN failStreak + 1 ELSE 0
  /\ sent' = contents'
  /\ requests' = requests + 1
  /\ pc' = "P_awaitNext"
  /\ UNCHANGED << limits, aborted, isExecutingTool, options, run, functionCall,
                  toolResult, followup, ret, outcome >>

\* the next response: lines 347-374
NextResponse ==
  /\ UNCHANGED pure
  /\ pc = "P_awaitNext"
  /\ \E r \in Answers :
       /\ task' = Received(r)
       /\ functionCalls' = FunctionCalls(r)
       /\ CASE r.kind = "reject" ->
              /\ Finish("false", "gateway_error")
              /\ UNCHANGED << messages, appended >>
         [] r.kind = "text" ->
              /\ messages' = Push(TextTurn("assistant", "reply", 1))
              /\ appended' = Append(appended, TextTurn("assistant", "reply", 1))
              /\ Finish("false", "text")
         [] r.kind = "call" ->
              /\ functionCall' = FirstCall(FunctionCalls(r))
              /\ toolResult' = NoResult
              /\ pc' = "P_iteration"
              /\ UNCHANGED << messages, appended, ret, outcome, contents, followup, failStreak >>
  /\ sent' = << >>
  /\ iter' = NoIter
  /\ UNCHANGED << limits, manager, options, run, requests >>

\* ------------------------------------------------ executeToolsSequentially --
\* the last stored turn is the completion tool's call (models.ts lines 393-399)
LastIsCompletionCall(ms) ==
  /\ Len(ms) > 0
  /\ ms[Len(ms)].role = "assistant"
  /\ ms[Len(ms)].type = "function_call"
  /\ ms[Len(ms)].name = "attempt_completion"

\* executeToolsSequentially returns to handleSequentialToolExecution
SequentialReturn(value, why) ==
  /\ pc' = "M_sequentialDone"
  /\ ret' = value
  /\ outcome' = why
  /\ contents' = << >>
  /\ functionCall' = NoCall
  /\ toolResult' = NoResult
  /\ followup' = FALSE
  /\ failStreak' = 0

\* the iteration of executeToolsSequentially up to the await of executeTool:
\* lines 383-428
SequentialIteration ==
  /\ functionCalls' = << >>
  /\ UNCHANGED appended
  /\ UNCHANGED << task, pure >>
  /\ pc = "S_iteration"
  /\ IF IterationStops(aborted, consecutiveMistakeCount)
     THEN /\ SequentialReturn("true", StopReason)
          /\ UNCHANGED << manager, iter >>
     ELSE IF functionCall = NoCall
     THEN /\ SequentialReturn("true", "text")
          /\ UNCHANGED << manager, iter >>
     ELSE IF functionCall.name = "attempt_completion"
     THEN /\ SequentialReturn("true", "completion")
          /\ UNCHANGED << manager, iter >>
     ELSE /\ ExecuteToolEnter(functionCall.name, functionCall.args)
          /\ UNCHANGED << ret, outcome, contents, functionCall, followup, failStreak >>
  /\ UNCHANGED << history, options, run, gateway >>

\* executeTool has returned: lines 430-461, up to the await of generateResponse
SequentialAfterTool ==
  /\ UNCHANGED runLog
  /\ UNCHANGED << task, pure >>
  /\ pc = "X_return"
  /\ run = "S"
  /\ consecutiveMistakeCount' = MistakeCountAfterSequential(consecutiveMistakeCount, toolResult)
  /\ iter' = [iter EXCEPT !.done = TRUE, !.after = consecutiveMistakeCount']
  /\ IF HasError(toolResult)
     THEN /\ messages' = Push(TextTurn("user", "tool_error", 1))
          /\ SequentialReturn("false", "tool_error")
          /\ UNCHANGED gateway
     ELSE /\ messages' = Push(ResponseTurn(functionCall.name, toolResult))
          /\ sent' = ConvertAll(messages')
          /\ requests' = requests + 1
          /\ pc' = "S_awaitNext"
          /\ failStreak' = 0
          /\ UNCHANGED << ret, outcome, contents, functionCall, toolResult, followup >>
  /\ UNCHANGED << limits, aborted, isExecutingTool, options, run >>

\* sendMessageWithFunctions turns the gateway's answer into a ChatMessage.  In
\* gemini-handler.ts a transport error becomes an assistant text (its catch
\* block, lines 598-607); the one of models.ts throws it again (lines 568-573).
ResponseMessage(r) ==
  IF r.kind = "call"
  THEN CallTurn(FirstCall(FunctionCalls(r)).name, FirstCall(FunctionCalls(r)).args)
  ELSE TextTurn("assistant", "reply", 1)

\* why a run ended with a text: the model wrote one, or the request failed
TextOutcome(r) == IF r.kind = "reject" THEN "gateway_error" ELSE "text"

ResponseCall(r) ==
  IF r.kind = "call" THEN FirstCall(FunctionCalls(r)) ELSE NoCall

\* generateResponse settles: lines 461-465; its rejection is caught nowhere on
\* the way up and rejects sendMessage
SequentialNextResponse ==
  /\ UNCHANGED pure
  /\ pc = "S_awaitNext"
  /\ \E r \in Answers :
       /\ functionCalls' = FunctionCalls(r)
       /\ UNCHANGED appended
       /\ task' = Received(r)
       /\ IF r.kind = "reject"
          THEN /\ Finish("rejected", "gateway_error")
               /\ UNCHANGED messages
          ELSE /\ messages' = Push(ResponseMessage(r))
               /\ functionCall' = ResponseCall(r)
               /\ toolResult' = NoResult
               /\ pc' = "S_iteration"
               /\ UNCHANGED << contents, followup, ret, outcome, failStreak >>
  /\ iter' = NoIter
  /\ sent' = << >>
  /\ UNCHANGED << limits, manager, options, run, requests >>

\* ------------------------------------------- GeminiHandler, models.ts version
\* sendMessage up to the await of sendMessageWithFunctions: lines 256-293
SendMessageModels ==
  /\ functionCalls' = << >>
  /\ UNCHANGED appended
  /\ UNCHANGED pure
  /\ task' = NoTask
  /\ pc = "idle"
  /\ handlerVersion = "models"
  /\ requests < MaxHandlerRequests
  /\ modelMaxTokens' = MaxOutTok
  /\ contextWindow' = GeminiCtxWindow
  /\ messages' = IF messages = << >> \/ messages[Len(messages)].role # "user"
                 THEN AddMessage(messages, TextTurn("user", "prompt", PromptLen),
                                 modelMaxTokens', contextWindow')
                 ELSE messages
  /\ sent' = ConvertAll(messages')
  /\ requests' = requests + 1
  /\ pc' = "M_awaitFirst"
  /\ run' = "S"
  /\ ret' = "none"
  /\ outcome' = "none"
  /\ iter' = NoIter
  /\ UNCHANGED << manager, options, contents, functionCall, toolResult, followup, failStreak >>

\* the first response: sendMessage lines 293-300, handleSequentialToolExecution
\* lines 350-376 (a new ToolExecutionManager for this run); a rejected request
\* rejects sendMessage
FirstResponseModels ==
  /\ UNCHANGED pure
  /\ pc = "M_awaitFirst"
  /\ \E r \in Answers :
       /\ functionCalls' = FunctionCalls(r)
       /\ UNCHANGED appended
       /\ task' = Received(r)
       /\ messages' = IF r.kind = "reject" THEN messages ELSE Push(ResponseMessage(r))
       /\ IF r.kind = "call"
          THEN /\ consecutiveMistakeCount' = 0
               /\ aborted' = FALSE
               /\ isExecutingTool' = FALSE
               /\ toolsRequiringApproval' =
                    (IF approvalListGiven THEN CallerApprovalList ELSE DefaultApprovalList)
               /\ hasManager' = TRUE
               /\ functionCall' = ResponseCall(r)
               /\ pc' = "S_iteration"
               /\ UNCHANGED << ret, outcome, contents, toolResult, followup, failStreak >>
          ELSE /\ IF r.kind = "reject" THEN Finish("rejected", "gateway_error")
                  ELSE Finish("text", "text")
               /\ UNCHANGED << manager, toolsRequiringApproval, hasManager >>
  /\ sent' = << >>
  /\ UNCHANGED << limits, onToolApprovalRequired, onToolExecutionCompleted, handlerVersion,
                  approvalListGiven, onTaskCompleted, run, requests, iter >>

\* handleSequentialToolExecution after executeToolsSequentially has returned
\* (models.ts lines 391-426), and sendMessage's return (lines 297-308); the
\* observation of the loop's last iteration ends with the loop
SequentialDoneModels ==
  /\ UNCHANGED runLog
  /\ UNCHANGED pure
  /\ pc = "M_sequentialDone"
  /\ IF ret = "true" /\ LastIsCompletionCall(messages)
     THEN IF onTaskCompleted
          THEN /\ pc' = "M_awaitTaskCompleted"
               /\ task' = Notified(task, messages[Len(messages)].args)
               /\ UNCHANGED << messages, ret, outcome, contents, functionCall, toolResult,
                               followup, failStreak >>
          ELSE /\ messages' = Push(TextTurn("assistant", "completion", 1))
               /\ Finish("completed", outcome)
               /\ UNCHANGED task
     ELSE /\ Finish("text", outcome)
          /\ UNCHANGED << messages, task >>
  /\ iter' = NoIter
  /\ UNCHANGED << limits, manager, options, run, gateway >>

\* await this.options.onTaskCompleted(result, command) settles:
\* handleTaskCompletion lines 659-677, then models.ts lines 404-420
TaskCompletedSettlesModels ==
  /\ UNCHANGED runLog
  /\ UNCHANGED << task, pure >>
  /\ pc = "M_awaitTaskCompleted"
  /\ \E r \in {"ok", "throw"} :
       IF r = "ok"
       THEN /\ messages' = Push(TextTurn("assistant", "completion", 1))
            /\ Finish("completed", outcome)
       ELSE /\ Finish("rejected", "callback_error")
            /\ UNCHANGED messages
  /\ UNCHANGED << limits, manager, options, run, gateway, iter >>

\* -------------------------------------- GeminiHandler, gemini-handler.ts ----
\* sendMessage from its start to the await of sendMessageWithFunctions:
\* lines 154-199.  message is '' on the re-entry of line 255.
SendMessageRequest(message, ms) ==
  /\ modelMaxTokens' = MaxOutTok
  /\ contextWindow' = GeminiCtxWindow
  /\ messages' = IF message # "" /\ (ms = << >> \/ ms[Len(ms)].role # "user")
                 THEN AddMessage(ms, TextTurn("user", "prompt", PromptLen),
                                 modelMaxTokens', contextWindow')
                 ELSE ms
  /\ IF hasManager
     THEN UNCHANGED << manager, toolsRequiringApproval, hasManager >>
     ELSE /\ consecutiveMistakeCount' = 0
          /\ aborted' = FALSE
          /\ isExecutingTool' = FALSE
          /\ toolsRequiringApproval' = (IF approvalListGiven THEN CallerApprovalList ELSE {})
          /\ hasManager' = TRUE
  /\ sent' = ConvertAll(messages')
  /\ requests' = requests + 1
  /\ pc' = "H_awaitFirst"

SendMessage ==
  /\ functionCalls' = << >>
  /\ UNCHANGED appended
  /\ UNCHANGED pure
  /\ task' = NoTask
  /\ pc = "idle"
  /\ handlerVersion = "gemini-handler"
  /\ requests < MaxHandlerRequests
  /\ \E cb \in BOOLEAN : followup' = cb
  /\ SendMessageRequest("prompt", messages)
  /\ run' = "H"
  /\ ret' = "none"
  /\ outcome' = "none"
  /\ iter' = NoIter
  /\ UNCHANGED << onToolApprovalRequired, onToolExecutionCompleted, handlerVersion,
                  approvalListGiven, onTaskCompleted, contents, functionCall, toolResult,
                  failStreak >>

\* the response is stored and dispatched: lines 201-304, with
\* handleSequentialToolExecution lines 388-471.  The manager's
\* executeToolsSequentially is called with the string '' (line 426): whatever
\* its first two tests say, it returns true at its test of the message content
\* (tool-execution-manager.ts lines 388-401), no tool runs, and the handler
\* answers from the last stored turn.
HandlerFirstResponse ==
  /\ UNCHANGED pure
  /\ pc = "H_awaitFirst"
  /\ \E r \in Answers :
       /\ functionCalls' = FunctionCalls(r)
       /\ UNCHANGED appended
       /\ task' = IF r.kind = "call" /\ r.name = "attempt_completion" /\ onTaskCompleted
                  THEN Notified(Received(r), r.args)
                  ELSE Received(r)
       /\ messages' = Push(ResponseMessage(r))
       /\ IF followup /\ r.kind = "call" /\ r.name = "ask_followup_question"
          THEN /\ functionCall' = ResponseCall(r)
               /\ pc' = "H_awaitAnswer"
               /\ UNCHANGED << ret, outcome, contents, toolResult, followup, failStreak >>
          ELSE IF r.kind = "call" /\ r.name = "attempt_completion"
          THEN IF onTaskCompleted
               THEN /\ functionCall' = ResponseCall(r)
                    /\ pc' = "H_awaitTaskCompleted"
                    /\ UNCHANGED << ret, outcome, contents, toolResult, followup, failStreak >>
               ELSE Finish("completed", "completion")
          ELSE IF r.kind = "call"
          THEN Finish("text", "unexecuted")
          ELSE Finish("text", TextOutcome(r))
  /\ sent' = << >>
  /\ UNCHANGED << limits, manager, options, run, requests, iter >>

\* await options.onFollowupQuestion(question) settles: lines 225-246, 260-277
FollowupAnswerSettles ==
  /\ functionCalls' = << >>
  /\ UNCHANGED appended
  /\ UNCHANGED << task, pure >>
  /\ pc = "H_awaitAnswer"
  /\ \E r \in {"answer", "throw"} :
       IF r = "answer"
       THEN /\ messages' = Push(ResponseTurn("ask_followup_question",
                                             [content |-> "answer", error |-> ""]))
            /\ sent' = ConvertAll(messages')
            /\ requests' = requests + 1
            /\ pc' = "H_awaitNext"
            /\ UNCHANGED << ret, outcome, contents, functionCall, toolResult, followup,
                            failStreak >>
       ELSE /\ messages' = Push(TextTurn("user", "followup_error", 1))
            /\ Finish("text", "followup_error")
            /\ UNCHANGED gateway
  /\ UNCHANGED << limits, manager, options, run, iter >>

\* the response after the answer: lines 248-259; a function call re-enters
\* sendMessage('', history, options), which issues the next request at once
HandlerNextResponse ==
  /\ UNCHANGED pure
  /\ pc = "H_awaitNext"
  /\ \E r \in Answers :
       /\ functionCalls' = FunctionCalls(r)
       /\ UNCHANGED appended
       /\ task' = Received(r)
       /\ IF r.kind = "call"
          THEN /\ SendMessageRequest("", Push(ResponseMessage(r)))
               /\ UNCHANGED << ret, outcome, contents, functionCall, toolResult, followup,
                               failStreak >>
          ELSE /\ messages' = Push(ResponseMessage(r))
               /\ Finish("text", TextOutcome(r))
               /\ sent' = << >>
               /\ UNCHANGED << limits, manager, toolsRequiringApproval, hasManager, requests >>
  /\ UNCHANGED << onToolApprovalRequired, onToolExecutionCompleted, handlerVersion,
                  approvalListGiven, onTaskCompleted, run, iter >>

\* await this.options.onTaskCompleted(resultText, command) settles: lines 414-422,
\* a rejection is caught at lines 461-466
TaskCompletedSettles ==
  /\ functionCalls' = << >>
  /\ UNCHANGED appended
  /\ UNCHANGED << task, pure >>
  /\ pc = "H_awaitTaskCompleted"
  /\ \E r \in {"ok", "throw"} :
       IF r = "ok" THEN Finish("completed", "completion")
       ELSE Finish("text", "callback_error")
  /\ UNCHANGED << history, manager, options, run, gateway, iter >>

Next ==
  \/ ExecuteToolsWithGeminiAPI
  \/ InitialResponse
  \/ SequenceIteration
  \/ SequenceAfterTool
  \/ NextResponse
  \/ ApprovalSettles
  \/ ExecuteSettles
  \/ ObserverSettles
  \/ Abort
  \/ SendMessageModels
  \/ FirstResponseModels
  \/ SequentialIteration
  \/ SequentialAfterTool
  \/ SequentialNextResponse
  \/ SequentialDoneModels
  \/ TaskCompletedSettlesModels
  \/ SendMessage
  \/ HandlerFirstResponse
  \/ FollowupAnswerSettles
  \/ HandlerNextResponse
  \/ TaskCompletedSettles

Spec == Init /\ [][Next]_vars

\* ============================================================ properties ===
\* a Model Gateway request is in flight
AwaitingGateway ==
  pc \in {"P_awaitInitial", "P_awaitNext", "S_awaitNext", "M_awaitFirst",
          "H_awaitFirst", "H_awaitNext"}

\* every functionCall turn of a sequence is directly followed by a
\* functionResponse turn naming the same tool
Paired(seq) ==
  \A i \in 1..Len(seq) :
    seq[i].part = "functionCall" =>
      /\ i < Len(seq)
      /\ seq[i + 1].part = "functionResponse"
      /\ seq[i + 1].name = seq[i].name

\* the iteration ended with an error result
IterFailed == iter.kind \in {"tool_error", "not_found", "throw"}

\* C1: whenever a Model Gateway request is in flight, every function_call turn of
\* the turn sequence it carries is immediately followed by a function_response
\* turn naming the same tool.
C1_EveryCallAnswered == AwaitingGateway => Paired(sent)

\* C2: no Model Gateway request is in flight once three tool executions in a row
\* have failed (maxConsecutiveMistakes = 3): there is no fourth request.
C2_NoRequestAfterThirdFailure ==
  AwaitingGateway => failStreak < maxConsecutiveMistakes

\* C3: a tool execution that ends with an error result (error returned, tool not
\* found, execute or a callback throws) raises consecutiveMistakeCount by exactly 1.
C3_FailureCountsOnce ==
  (iter.done /\ IterFailed) => iter.after = iter.before + 1

\* C4: after a failed execution, with the budget not exhausted and no abort, the
\* last stored turn is a function_response naming the tool and carrying the error,
\* and the request for the next model step is in flight.
C4_FailureAnsweredAndLoopContinues ==
  (iter.done /\ IterFailed /\ iter.after < maxConsecutiveMistakes /\ ~aborted) =>
    /\ Len(messages) > 0
    /\ messages[Len(messages)].type = "function_response"
    /\ messages[Len(messages)].name = iter.name
    /\ messages[Len(messages)].error
    /\ AwaitingGateway

\* C5: when a loop has ended because the model invoked attempt_completion,
\* consecutiveMistakeCount is 0, whatever failures came before.
C5_CompletionClearsCount ==
  (pc \in {"idle", "M_sequentialDone"} /\ run \in {"P", "S"} /\ outcome = "completion") =>
    consecutiveMistakeCount = 0

\* C6 as stated: an approval denial leaves consecutiveMistakeCount at the value it
\* had before the iteration.
C6_DenialKeepsCount ==
  (iter.done /\ iter.kind = "denied") => iter.after = iter.before

\* C6 amended: after an iteration whose tool was denied approval,
\* consecutiveMistakeCount is 0: the decline is a result without error, so the
\* count never goes up and a count of 1 or 2 is cleared.
C6_DenialClearsCount ==
  (iter.done /\ iter.kind = "denied") =>
    /\ iter.after = 0
    /\ consecutiveMistakeCount = 0
    /\ iter.after <= iter.before

\* two failures, then a denied tool
C6_DeniedAfterTwoFailures ==
  iter.done /\ iter.kind = "denied" /\ iter.before = 2

\* C7: with an approval callback configured, a tool on toolsRequiringApproval
\* starts only after the callback was called with its name and parameters and
\* resolved true; when it resolved false the tool never starts, the observer is
\* not called, and the result carries the decline text and no error.
C7_ApprovalGate ==
  /\ (iter.started /\ iter.name \in toolsRequiringApproval /\ onToolApprovalRequired) =>
       /\ iter.asked = [name |-> iter.name, args |-> iter.args]
       /\ iter.approval = "true"
  /\ iter.approval = "false" =>
       /\ ~iter.started
       /\ ~iter.observed
       /\ ~isExecutingTool
       /\ pc \notin {"X_awaitExecute", "X_awaitObserver"}
       /\ pc = "X_return" => (toolResult = DeclinedResult /\ ~HasError(toolResult))

\* a listed tool has been approved and its execute has started
C7_ApprovedToolStarted ==
  pc = "X_awaitExecute" /\ iter.name \in toolsRequiringApproval /\ iter.approval = "true"

\* C8: after a tool execution whose result carries no error,
\* consecutiveMistakeCount is 0.
C8_SuccessClearsCount ==
  (iter.done /\ iter.kind \in {"ok", "denied"}) =>
    /\ iter.after = 0
    /\ consecutiveMistakeCount = 0

\* two failures, then a tool that succeeds
C8_SuccessAfterTwoFailures ==
  iter.done /\ iter.kind = "ok" /\ iter.before = 2

\* C9: a loop iteration that begins with aborted set executes no tool, calls no
\* approval or observer callback, appends no turn, issues no request, and the
\* loop returns.
C9_AbortedIterationDoesNothing ==
  [][(pc \in {"P_iteration", "S_iteration"} /\ aborted) =>
       /\ pc' \in {"idle", "M_sequentialDone"}
       /\ ret' = "true"
       /\ messages' = messages
       /\ requests' = requests
       /\ iter' = iter
       /\ ~iter'.started /\ ~iter'.observed /\ iter'.asked = NoCall
       /\ ~isExecutingTool'
       /\ consecutiveMistakeCount' = consecutiveMistakeCount]_vars

\* a loop has returned because its iteration began aborted
C9_LoopReturnedAborted ==
  pc \in {"idle", "M_sequentialDone"} /\ outcome = "aborted" /\ ret = "true" /\ aborted

\* C10: once abort() has been called on the manager whose loop runs (or is about
\* to be run by the application), no further Model Gateway request is issued and
\* no further tool execution starts.
C10_NothingStartsAfterAbort ==
  [][(aborted /\ (pc = "idle" => handlerVersion = "none")) =>
       /\ requests' = requests
       /\ (pc' = "X_awaitExecute" => pc = "X_awaitExecute")]_vars

\* C11: in a run of a handler that has an onTaskCompleted callback, once the model
\* has answered with a call of attempt_completion the tool is never run as a
\* generic tool, the callback is called exactly once with that call's arguments
\* and the run ends as completed; the callback is not called in a run that ends
\* any other way (a run whose callback itself failed is left aside).
C11_CompletionNotifiedOnce ==
  /\ iter.name # "attempt_completion"
  /\ (pc = "idle" /\ run \in {"H", "S"} /\ onTaskCompleted /\ outcome # "callback_error") =>
       /\ task.call # NoCall => (task.notified = << task.call.args >> /\ ret = "completed")
       /\ task.notified # << >> => ret = "completed"

\* the turn is a call of the clarifying-question tool
IsQuestionCall(m) == m.type = "function_call" /\ m.name = "ask_followup_question"

\* C12: in sendMessage with a question callback, every response that calls
\* ask_followup_question leads to the callback being called with that call; when
\* the callback has answered, the answer is stored as a function_response naming
\* ask_followup_question directly after the question's call, the run goes on, and
\* one more request is issued whose turn sequence ends with that answer.
C12_QuestionAskedAndAnswered ==
  [][/\ (/\ pc \in {"H_awaitFirst", "H_awaitNext"}
         /\ followup
         /\ messages' # messages
         /\ IsQuestionCall(messages'[Len(messages')])) =>
          (pc' = "H_awaitAnswer" /\ functionCall'.name = "ask_followup_question")
     /\ (pc = "H_awaitAnswer" /\ pc' = "H_awaitNext") =>
          /\ Len(messages') >= 2
          /\ IsQuestionCall(messages'[Len(messages') - 1])
          /\ messages'[Len(messages')].type = "function_response"
          /\ messages'[Len(messages')].name = "ask_followup_question"
          /\ requests' = requests + 1
          /\ sent' # << >>
          /\ sent'[Len(sent')] = convertChatMessageToGemini(messages'[Len(messages')])]_vars

\* C13: when no question callback is supplied, a response that calls
\* ask_followup_question is taken up like any other tool call: the loop iteration
\* that executes the tool comes next, the run does not end with the call unanswered.
C13_QuestionWithoutCallbackIsOrdinary ==
  [][(/\ AwaitingGateway
      /\ ~followup
      /\ messages' # messages
      /\ IsQuestionCall(messages'[Len(messages')])) =>
       /\ pc' \in {"P_iteration", "S_iteration"}
       /\ functionCall'.name = "ask_followup_question"]_vars

\* C14: a response without a function call makes executeToolsWithGeminiAPI /
\* processFunctionCallSequence store the text as one assistant turn (after the
\* user's turn), run no tool, issue no request and return false with the text
\* outcome; executeToolsSequentially likewise stores one assistant turn, and its
\* next iteration runs no tool, stores nothing, issues no request and returns.
C14_TextResponseEndsRun ==
  [][/\ (pc \in {"P_awaitInitial", "P_awaitNext"} /\ pc' = "idle" /\ messages' # messages) =>
          /\ ret' = "false" /\ outcome' = "text"
          /\ messages'[Len(messages')].role = "assistant"
          /\ messages'[Len(messages')].type = "text"
          /\ Len(messages') >= 2 => messages'[Len(messages') - 1].role = "user"
          /\ requests' = requests
          /\ iter' = NoIter /\ ~isExecutingTool'
          /\ consecutiveMistakeCount' = consecutiveMistakeCount
     /\ (pc = "S_awaitNext" /\ pc' = "S_iteration" /\ functionCall' = NoCall) =>
          /\ messages'[Len(messages')].role = "assistant"
          /\ messages'[Len(messages')].type = "text"
          /\ requests' = requests
     /\ (pc = "S_iteration" /\ pc' # pc /\ functionCall = NoCall) =>
          /\ pc' = "M_sequentialDone"
          /\ messages' = messages
          /\ requests' = requests
          /\ iter' = iter /\ ~iter'.started /\ ~isExecutingTool']_vars

\* the first request was answered with a tool call, a later one with text
C14_TextAfterToolCall ==
  pc = "idle" /\ run = "P" /\ outcome = "text" /\ ret = "false" /\ requests >= 2
  /\ Len(messages) >= 4 /\ messages[Len(messages) - 1].type = "function_response"

\* C15: a run that ended because a Model Gateway request was rejected has
\* rejected to its caller; it has not returned a value.
C15_TransportErrorPropagates ==
  (pc = "idle" /\ outcome = "gateway_error") => ret = "rejected"

\* the values executeTool can resolve to
ResultValues == {OkResult, ToolErrResult, NotFoundResult, ThrownResult, DeclinedResult}

InExecuteTool == pc \in {"X_awaitApproval", "X_awaitExecute", "X_awaitObserver"}

\* C16: executeTool never rejects.  Whatever settles one of its awaits, control
\* stays inside executeTool or reaches its return, never the caller's error
\* path; at the return the loop holds a result value and isExecutingTool is
\* false.  For a tool that is not registered the result is {content: "", error}
\* and neither the approval callback nor a tool action was called; when the
\* tool's execute throws or rejects the result is {content: "", error: message}.
C16_ExecuteToolAlwaysReturns ==
  [][ /\ (InExecuteTool /\ pc' # pc) =>
             pc' \in {"X_awaitExecute", "X_awaitObserver", "X_return"}
      /\ (pc' = "X_return" /\ pc # "X_return") =>
             /\ toolResult' \in ResultValues
             /\ ~isExecutingTool'
             /\ iter'.kind = "not_found" =>
                   /\ toolResult' = NotFoundResult
                   /\ iter'.asked = NoCall
                   /\ ~iter'.started
                   /\ ~iter'.observed
             /\ (pc = "X_awaitExecute" /\ iter'.kind = "throw") =>
                   toolResult' = ThrownResult
    ]_vars

\* executeTool has returned after the tool's execute threw
C16_ExecuteThrewAndReturned ==
  /\ pc = "X_return"
  /\ iter.kind = "throw"
  /\ iter.started
  /\ ~iter.observed
  /\ toolResult = ThrownResult
  /\ ~isExecutingTool

\* C17: however the execution-completed observer settles, executeTool returns
\* the result the tool itself produced, and consecutiveMistakeCount is what it
\* would be had the observer succeeded (cleared for the completion tool, left
\* alone otherwise).
C17_ObserverFailureIsIgnored ==
  [][ (pc = "X_awaitObserver" /\ pc' = "X_return") =>
        /\ toolResult' = toolResult
        /\ consecutiveMistakeCount' =
             (IF iter.name = "attempt_completion" THEN 0 ELSE consecutiveMistakeCount)
    ]_vars

\* C18: executeToolsWithGeminiAPI and executeToolsSequentially return true
\* exactly when the run ended because the model called attempt_completion; in
\* particular a run stopped by abort or by the mistake budget does not return
\* the value of a completed run.
C18_TrueMeansCompleted ==
  /\ (pc = "idle" /\ run = "P" /\ ret \in {"true", "false"}) =>
        (ret = "true" <=> outcome = "completion")
  /\ pc = "M_sequentialDone" =>
        (ret = "true" <=> outcome = "completion")

\* the external calls of the run that have been made and have not settled: a
\* Model Gateway request (its contents are still held), a tool's execute (the
\* manager's own flag), the approval callback (asked, no answer yet) and the
\* execution-completed observer; and the handlers' callbacks for a follow-up
\* question and for the completed task
InFlight ==
  {k \in {"gateway", "tool", "approval", "observer", "callback"} :
     \/ k = "callback" /\ pc \in {"H_awaitAnswer", "H_awaitTaskCompleted",
                                    "M_awaitTaskCompleted"}
     \/ k = "gateway"  /\ (sent # << >> \/ AwaitingGateway)
     \/ k = "tool"     /\ (isExecutingTool \/ pc = "X_awaitExecute")
     \/ k = "approval" /\ ((iter.asked # NoCall /\ iter.approval = "none")
                              \/ pc = "X_awaitApproval")
     \/ k = "observer" /\ pc = "X_awaitObserver"}

\* C19: within a run at most one external call is in flight.  Before and after
\* every step at most one of gateway request, tool execution, approval
\* callback and observer callback is outstanding; a gateway request is issued
\* only when nothing is outstanding, or by the step in which the one outstanding
\* request or handler callback settles; a tool's execute starts only when nothing but the approval
\* that has just been given was outstanding.
C19_OneExternalCallInFlight ==
  [][ /\ Cardinality(InFlight) <= 1
      /\ Cardinality(InFlight') <= 1
      /\ requests' # requests =>
            /\ requests' = requests + 1
            /\ InFlight \cap {"tool", "approval", "observer"} = {}
            /\ InFlight' = {"gateway"}
      /\ (isExecutingTool' /\ ~isExecutingTool) =>
            (InFlight \subseteq {"approval"} /\ InFlight' = {"tool"})
    ]_vars

\* a gateway request is in flight after the approval callback, the tool and the
\* observer of the same iteration have all been called and have settled
C19_RequestAfterAllCallbacks ==
  /\ InFlight = {"gateway"}
  /\ pc = "P_awaitNext"
  /\ iter.asked # NoCall
  /\ iter.approval = "true"
  /\ iter.started
  /\ iter.observed
  /\ iter.done

\* floor((n-1) * num/den) rounded down to an even number, said without
\* division: the largest even e with e <= (n-1) * num/den
EvenFloor(n, num, den) ==
  CHOOSE e \in 0..((n - 1) * num) :
    /\ e % 2 = 0
    /\ e * den <= (n - 1) * num
    /\ (e + 2) * den > (n - 1) * num

\* C20: truncateConversation(turns, f) on n turns.  For n >= 2 and 0 < f <= 1,
\* with r = floor((n-1)*f) rounded down to even and r > 0, the result is turns[0]
\* followed by turns[r+1 .. n-1] in the original order; for n <= 1, f <= 0 or
\* r = 0 the result equals turns; the argument is left as it was.  For 21 turns
\* and f = 0.5 the result is turn 0 and the last 10 turns.
C20_TruncateKeepsFirstAndTail ==
  [][ fracToRemove' # fracToRemove =>
        LET n   == Len(turns)
            num == fracToRemove'[1]
            den == fracToRemove'[2]
            r   == IF n >= 2 /\ num > 0 THEN EvenFloor(n, num, den) ELSE 0
        IN  /\ turns' = turns
            /\ num <= den =>
                  IF n <= 1 \/ num <= 0 \/ r = 0
                  THEN truncated' = turns
                  ELSE /\ Len(truncated') = n - r
                       /\ truncated'[1] = turns[1]
                       /\ \A i \in 2..(n - r) : truncated'[i] = turns[i + r]
            /\ (n = 21 /\ num = 5 /\ den = 10) =>
                  truncated' = << turns[1] >> \o SubSeq(turns, 12, 21)
    ]_vars

\* 21 turns were truncated by one half: 11 turns are left
C20_HalfOfTwentyOne ==
  /\ Len(turns) = 21
  /\ fracToRemove = << 5, 10 >>
  /\ Len(truncated) = 11
  /\ truncated[2] = turns[12]

\* C21: the first turn is always retained.  truncateConversation(turns, f) of a
\* non-empty sequence with 0 < f <= 1 starts with turns[0]; and a call of
\* addMessage on a store that is not empty leaves the store's first turn where
\* it was, so that with no clearMessages or truncateMessages in between the
\* first stored turn is the first one appended.
C21_FirstTurnRetained ==
  [][ /\ (called'.op = "truncateConversation" /\ turns' # << >>
            /\ fracToRemove'[1] > 0 /\ fracToRemove'[1] <= fracToRemove'[2]) =>
              (truncated' # << >> /\ truncated'[1] = turns'[1])
      /\ (called'.op = "addMessage" /\ added' = added + 1 /\ messages # << >>) =>
              (messages' # << >> /\ messages'[1] = messages[1])
    ]_vars

\* five messages were added, the fifth addMessage dropped the second and the
\* third, the first is still there
C21_FirstKeptByAutoTruncation ==
  /\ called.op = "addMessage"
  /\ added = 5
  /\ Len(messages) = 3
  /\ messages[1].text = "1"
  /\ messages[2].text = "4"
  /\ messages[3].text = "5"

C23_ResponsesFollowTheirCalls ==
  \A i \in 1..Len(messages) :
    messages[i].type = "function_response" =>
      /\ i > 1
      /\ messages[i - 1].type = "function_call"
      /\ messages[i - 1].name = messages[i].name

\* C24: the sliding window keeps the conversation within the context budget.
\* When addMessage has returned, the estimated token total of the stored turns
\* is at most allowedTokens = contextWindow * 0.9 - modelMaxTokens * 0.2
\* (compared in tenths).
C24_WithinBudgetAfterAdd ==
  called.op = "addMessage" =>
    10 * SumTextTokens(messages) <= 9 * contextWindow - 2 * modelMaxTokens

\* the sum of the content lengths of the turns whose content is a plain string,
\* for turns as an application adds them: short ones and long ones
TextTotal(ms) ==
  Cardinality({i \in 1..Len(ms) : ms[i].type = "text" /\ ms[i].len = 1})
  + LongLen * Cardinality({i \in 1..Len(ms) : ms[i].type = "text" /\ ms[i].len = LongLen})

\* turns[0] followed by what comes after the first half of the rest, the half
\* rounded down to even
HalfTruncated(ms) ==
  LET r == IF Len(ms) >= 2 THEN EvenFloor(Len(ms), 1, 2) ELSE 0 IN
  IF r = 0 THEN ms ELSE << ms[1] >> \o SubSeq(ms, r + 2, Len(ms))

C26_TruncateMessagesKeepsPrefix ==
  [][ (called'.op = "truncateMessages" /\ called' # called) =>
        IF called'.index >= 0 /\ called'.index < Len(messages)
        THEN /\ Len(messages') = called'.index
             /\ \A k \in 1..called'.index : messages'[k] = messages[k]
        ELSE messages' = messages
    ]_vars

\* three messages were added and truncateMessages(1) left the first
C26_CutToFirst ==
  /\ called.op = "truncateMessages"
  /\ called.index = 1
  /\ added = 3
  /\ Len(messages) = 1
  /\ messages[1].text = "1"

\* C27: when the caller gives no list of tools requiring approval but gives an
\* approval callback, write_to_file and edit_file start executing only after
\* the callback was asked about the call and approved it.
C27_DestructiveToolsGatedByDefault ==
  (/\ ~approvalListGiven
   /\ onToolApprovalRequired
   /\ iter.started
   /\ iter.name \in {"write_to_file", "edit_file"}) =>
     /\ iter.asked = [name |-> iter.name, args |-> iter.args]
     /\ iter.approval = "true"

C29_UpdateReplacesOrDoesNothing ==
  [][ called'.op \in {"updateTaskMessage", "update"} =>
        LET taskId  == called'.taskId
            message == called'.message
            before  == TaskMessagesIn(taskMessages, taskList, taskId) IN
        /\ ~called'.threw
        /\ taskList' = taskList
        /\ Len(TaskMessagesIn(taskMessages', taskList', taskId)) = Len(before)
        /\ \A i \in 1..Len(before) :
              TaskMessagesIn(taskMessages', taskList', taskId)[i] =
                (IF before[i].ts = message.ts THEN message ELSE before[i])
    ]_vars

\* C30: every Model Gateway request carries the store's current turn sequence.
\* While a request is in flight the turns sent are the converted turns of
\* getMessages(), one to one and in order, followed for the first request of
\* executeToolsWithGeminiAPI by the prompt that is not stored yet.
C30_RequestCarriesStoredTurns ==
  /\ pc = "P_awaitInitial" =>
        sent = Append(ConvertAll(messages), UserTextContent("prompt"))
  /\ pc \in {"P_awaitNext", "S_awaitNext", "M_awaitFirst", "H_awaitFirst", "H_awaitNext"} =>
        sent = ConvertAll(messages)

\* the turn is the prompt of the run, a function call, the response to the call
\* c, a text of the model
IsPrompt(t) == t = TextTurn("user", "prompt", PromptLen)
IsCall(t) == t.role = "assistant" /\ t.type = "function_call"
IsResponseTo(c, t) == t.role = "user" /\ t.type = "function_response" /\ t.name = c.name
IsReply(t) == t.role = "assistant" /\ t.type = "text"

\* a log of appended turns: nothing, or the prompt, then calls each directly
\* followed by its response, then at most one text of the model
CausalOrder(log) ==
  log # << >> =>
    /\ IsPrompt(log[1])
    /\ \A i \in 2..Len(log) :
         \/ i % 2 = 0 /\ i < Len(log) /\ IsCall(log[i]) /\ IsResponseTo(log[i], log[i + 1])
         \/ i % 2 = 1 /\ IsCall(log[i - 1]) /\ IsResponseTo(log[i - 1], log[i])
         \/ i % 2 = 0 /\ i = Len(log) /\ IsReply(log[i])

\* C31: the turns a run of executeToolsWithGeminiAPI appends come in causal
\* order: the user prompt first and once, then for each executed iteration its
\* function_call turn directly followed by the function_response turn of the
\* same tool, the iterations in the order they ran, then at most one assistant
\* text; once the run has returned nothing more is appended.  (A run whose first
\* request fails appends nothing at all.)
C31_TurnsInCausalOrder ==
  /\ [](run = "P" =>
          /\ CausalOrder(appended)
          /\ (appended # << >> /\ IsReply(appended[Len(appended)])) => pc = "idle")
  /\ [][run = "P" /\ run' = "P" =>
          /\ pc # "idle" =>
                /\ Len(appended') >= Len(appended)
                /\ SubSeq(appended', 1, Len(appended)) = appended
                /\ messages' # messages => appended' # appended
          /\ (pc = "X_return" /\ pc' # "X_return") =>
                /\ Len(appended') = Len(appended) + 2
                /\ appended'[Len(appended') - 1].name = iter.name
                /\ IsCall(appended'[Len(appended') - 1])
                /\ appended'[Len(appended')].name = iter.name
          /\ (pc = "idle" /\ pc' = "idle") =>
                /\ messages' = messages
                /\ appended' = appended]_vars

\* a run that executed two different tools and ended with a text of the model
C31_TwoIterationsThenText ==
  /\ pc = "idle" /\ run = "P" /\ outcome = "text"
  /\ Len(appended) = 6
  /\ appended[2].name # appended[4].name

\* the turn records a completion: the formatted text of models.ts (lines
\* 408-414), or the stored call of the completion tool with its arguments
IsCompletionTurn(t) ==
  /\ t.role = "assistant"
  /\ \/ t.type = "text" /\ t.text = "completion"
     \/ t.type = "function_call" /\ t.name = "attempt_completion" /\ t.args # ""

\* C32: after a run that ended because the model called attempt_completion,
\* the last turn of the conversation is an assistant completion turn carrying
\* the call's result.
C32_CompletionTurnAppended ==
  (pc = "idle" /\ outcome = "completion") =>
    /\ messages # << >>
    /\ IsCompletionTurn(messages[Len(messages)])

\* C33: the execution-completed observer is called exactly for successful tool
\* executions: while it is awaited the tool's result carries no error; a tool
\* that returned without error is observed once the observer is configured; an
\* unknown tool and a denied one are never observed.
C33_ObserverOnlyOnSuccess ==
  /\ pc = "X_awaitObserver" => (~HasError(toolResult) /\ iter.started)
  /\ (pc = "X_return" /\ iter.kind = "ok" /\ onToolExecutionCompleted) => iter.observed
  /\ iter.kind \in {"not_found", "denied"} => ~iter.observed

\* a call of executeTool is in progress or has just returned
InExecuteToolCall == pc \in {"X_awaitApproval", "X_awaitExecute", "X_awaitObserver", "X_return"}

\* C34: the failure budget is the only bound on the iterations of a loop.  No
\* tool execution is under way once three executions in a row have failed.  A
\* loop that is not aborted and below the budget never stops by itself: its
\* iteration starts the tool the model called (unless that is the completion
\* tool), the returned tool is followed by the next request (in
\* executeToolsSequentially when the result has no error), a response that holds
\* a call is followed by the next iteration, and after a result without
\* error the iteration begins with the counter at 0 as the first one did.
C34_OnlyTheFailureBudgetStops ==
  /\ [](InExecuteToolCall => failStreak < maxConsecutiveMistakes)
  /\ [](failStreak <= maxConsecutiveMistakes)
  /\ [][/\ (/\ pc \in {"P_iteration", "S_iteration"}
             /\ pc' # pc
             /\ ~aborted /\ consecutiveMistakeCount < maxConsecutiveMistakes
             /\ functionCall # NoCall /\ functionCall.name # "attempt_completion") =>
               (InExecuteToolCall' /\ iter'.name = functionCall.name)
        /\ (pc = "X_return" /\ pc' # pc /\ (run = "P" \/ ~HasError(toolResult))) =>
               /\ pc' \in {"P_awaitNext", "S_awaitNext"}
               /\ requests' = requests + 1
               /\ ~HasError(toolResult) => consecutiveMistakeCount' = 0
        /\ (pc \in {"P_awaitNext", "S_awaitNext"} /\ pc' # pc /\ functionCalls' # << >>) =>
               /\ pc' \in {"P_iteration", "S_iteration"}
               /\ functionCall' = functionCalls'[1]
               /\ consecutiveMistakeCount' = consecutiveMistakeCount]_vars

\* three tools in a row have succeeded and the loop has issued one more request
C34_StillRunningAfterThreeSuccesses ==
  /\ pc = "P_awaitNext" /\ requests >= 4
  /\ iter.kind = "ok" /\ consecutiveMistakeCount = 0 /\ ~aborted
  /\ Len(appended) = 7

\* the call is one a loop iteration executes as a tool: not the completion
\* tool, not a question that goes to the question callback
IsOrdinaryCall(call) ==
  /\ call.name # "attempt_completion"
  /\ ~(followup /\ call.name = "ask_followup_question")

\* C35: when a response of the model holds several function calls, only the
\* first is acted upon.  With an ordinary tool as the first call: the iteration
\* for that call comes next; unless the loop is stopped it executes that tool
\* and no other; when the tool has returned, one function_call turn and one
\* function_response turn naming it are appended (the call turn is already
\* stored where a handler stored the response) and nothing else.
C35_OnlyFirstCallActedUpon ==
  [][/\ (/\ AwaitingGateway /\ pc' # pc
         /\ Len(functionCalls') > 1
         /\ IsOrdinaryCall(functionCalls'[1])) =>
           /\ pc' \in {"P_iteration", "S_iteration"}
           /\ functionCall' = functionCalls'[1]
     /\ (/\ pc \in {"P_iteration", "S_iteration"} /\ pc' # pc
         /\ Len(functionCalls) > 1
         /\ IsOrdinaryCall(functionCalls[1])
         /\ ~IterationStops(aborted, consecutiveMistakeCount)) =>
           /\ InExecuteToolCall'
           /\ iter'.name = functionCalls[1].name
           /\ iter'.args = functionCalls[1].args
     /\ (pc = "X_return" /\ pc' # pc) =>
           /\ messages'[Len(messages')].type = "function_response"
           /\ messages'[Len(messages')].name = iter.name
           /\ run = "P" => appended' = appended \o IterationTurns(functionCall, toolResult)
           /\ run = "S" => messages' = Push(messages'[Len(messages')])]_vars

\* C36: every conversation run of a handler starts with fresh engine state: at
\* the point where the manager of the run is settled (gemini-handler.ts lines
\* 177-186 on entry of sendMessage, models.ts lines 367-374 when the first
\* response holds a call) consecutiveMistakeCount is 0 and aborted is false,
\* also when an earlier run on the same handler was aborted.
C36_FreshEnginePerRun ==
  [][/\ (pc = "idle" /\ pc' = "H_awaitFirst") =>
          (consecutiveMistakeCount' = 0 /\ ~aborted')
     /\ (pc = "M_awaitFirst" /\ pc' = "S_iteration") =>
          (consecutiveMistakeCount' = 0 /\ ~aborted')]_vars

\* the step constructs a new ToolExecutionManager (gemini-handler.ts line 178,
\* models.ts line 368)
NewManager ==
  \/ ~hasManager /\ hasManager'
  \/ handlerVersion = "models" /\ pc = "M_awaitFirst" /\ pc' = "S_iteration"

\* the step is one of a loop of the manager
ManagerStep ==
  pc \in {"P_awaitInitial", "P_iteration", "P_awaitNext", "S_iteration", "S_awaitNext",
          "X_awaitApproval", "X_awaitExecute", "X_awaitObserver", "X_return"}

\* the stopped conditions never go away within one manager
StoppedStays ==
  ~NewManager =>
    /\ aborted => aborted'
    /\ consecutiveMistakeCount >= maxConsecutiveMistakes =>
         consecutiveMistakeCount' >= consecutiveMistakeCount

\* C37: within one ToolExecutionManager the stopped conditions are absorbing:
\* aborted never goes back to false, a consecutiveMistakeCount at or above
\* maxConsecutiveMistakes is never lowered, and once either holds the loops
\* of that manager start no tool action and append no function_call or
\* function_response turn.
C37_StoppedIsAbsorbing ==
  [][/\ StoppedStays
     /\ (ManagerStep /\ ~NewManager /\ IterationStops(aborted, consecutiveMistakeCount)) =>
          /\ pc' = "X_awaitExecute" => pc = "X_awaitExecute"
          /\ messages' # messages => messages'[Len(messages')].type = "text"]_vars

\* the last turn of a conversation is the user turn that holds the prompt
EndsWithPrompt(ms) == ms # << >> /\ IsPrompt(ms[Len(ms)])

\* C38: when sendMessage(m, h) issues its first request, the last turn of h is
\* a user turn holding m: sendMessage appends it, unless h already ends with
\* that prompt, and then leaves h as it is.
C38_PromptIsLastAtFirstRequest ==
  [][(pc = "idle" /\ pc' \in {"H_awaitFirst", "M_awaitFirst"}) =>
       /\ EndsWithPrompt(messages')
       /\ sent' # << >>
       /\ sent'[Len(sent')] = UserTextContent("prompt")
       /\ EndsWithPrompt(messages) => messages' = messages
       /\ ~EndsWithPrompt(messages) =>
            messages' = AddMessage(messages, TextTurn("user", "prompt", PromptLen),
                                   modelMaxTokens', contextWindow')]_vars

\* C39: when the first request of executeToolsWithGeminiAPI fails, the run
\* leaves the conversation and the manager as they were: from the call to the
\* return no turn is appended, not even the prompt, consecutiveMistakeCount,
\* aborted and isExecutingTool are not written, and no tool, approval or
\* observer callback is called; the run returns false.
C39_FailedFirstRequestChangesNothing ==
  /\ [](pc = "P_awaitInitial" => (appended = << >> /\ iter = NoIter /\ task = NoTask))
  /\ [][/\ (pc = "idle" /\ pc' = "P_awaitInitial") =>
              (messages' = messages /\ UNCHANGED manager)
        /\ (pc = "P_awaitInitial" /\ pc' = "idle" /\ functionCalls' = << >>
            /\ outcome' = "gateway_error") =>
              /\ messages' = messages
              /\ UNCHANGED manager
              /\ appended' = << >>
              /\ iter' = NoIter /\ task' = NoTask
              /\ requests' = requests
              /\ ret' = "false"]_vars

\* the first request of a run failed on a conversation that earlier runs have
\* filled, with a mistake on the count
C39_FirstRequestFailedLater ==
  /\ pc = "idle" /\ run = "P" /\ outcome = "gateway_error"
  /\ appended = << >>
  /\ messages # << >>
  /\ consecutiveMistakeCount > 0

\* C40: addMessage never drops the turn it was given: when addMessage(m) has
\* returned, m is the last stored turn, whether or not auto-truncation ran, and
\* the store holds at least one turn and at most one more than before.
C40_AddedTurnIsLast ==
  called.op = "addMessage" =>
    /\ Len(messages) >= 1
    /\ messages[Len(messages)] = called.message
    /\ Len(messages) <= called.before + 1

\* auto-truncation ran in the addMessage that has just returned
C40_AddedWhileTruncating ==
  /\ called.op = "addMessage"
  /\ Len(messages) < called.before + 1
  /\ messages[Len(messages)] = called.message
====
